---- MODULE Spec2Model ----
(***************************************************************************)
(* A model of the cisa library (afcarl/cisa): the ISA model class of       *)
(* isa.h, Distribution::evaluate of distribution.cpp and the Python        *)
(* binding of the GSM class in gsminterface.cpp.                           *)
(*                                                                         *)
(* The three parts share no state.  A behaviour of Spec is the life of one  *)
(* object: Init chooses whether the run constructs an ISA model, a density *)
(* model or a Python GSM object, and the variables of the other two parts  *)
(* keep the value that says the object does not exist.                     *)
(***************************************************************************)
EXTENDS Integers, Sequences, FiniteSets, TLC

VARIABLES
    \* ---- class ISA (isa.h:78-83) ----
    mNumVisibles,   \* int mNumVisibles
    mNumHiddens,    \* int mNumHiddens
    mBasis,         \* MatrixXd mBasis: [rows, cols, e]
    mSubspaces,     \* vector<GSM> mSubspaces: sequence of [dim, numScales, params]
    \* ---- ISA::train in progress (isa.h:65) ----
    trainPc,        \* position inside the outer loop of ISA::train
    trainIter,      \* outer iterations completed in the running call
    trainParams,    \* the Parameters record the running call was given
    trainSteps,     \* steps performed so far in the current outer iteration
    isaCall,        \* what the last ISA::train call was given and did
    \* ---- Distribution (distribution.cpp) ----
    distDim,        \* dim() of the density model
    distParams,     \* the implementer's parameters
    evalCall,       \* the last evaluate(data) call: its inputs and its result
    \* ---- GSM binding (gsminterface.cpp) ----
    pyObj,          \* the GSMObject: "none" (not allocated), "alive" or "freed"
    gsm,            \* self->gsm: 0 (null) or the index of a heap instance
    heap,           \* per GSM allocated with new: how many times it was deleted
    inst,           \* the GSM self->gsm points to: [dim, numScales, scales, priors]
    lastCall,       \* the last entry-point call: arguments, result, host error
    crashed         \* the process died in undefined behaviour

isaVars  == <<mNumVisibles, mNumHiddens, mBasis, mSubspaces,
              trainPc, trainIter, trainParams, trainSteps, isaCall>>
distVars == <<distDim, distParams, evalCall>>
gsmVars  == <<pyObj, gsm, heap, inst, lastCall, crashed>>
vars     == <<isaVars, distVars, gsmVars>>

-----------------------------------------------------------------------------
(* Bounds of the model.                                                    *)

\* largest visible / hidden dimensionality and largest matrix side
MaxDim == 2
\* largest Parameters::maxIter handed to ISA::train
MaxOuterIter == 2
\* largest number of samples (columns) of a data matrix
MaxCols == 2
\* largest max_iter handed to GSM_train, and the length of the run of
\* log-likelihood gains the EM loop is given
MaxGsmIter == 2
\* largest number of GSM instances one GSMObject allocates
MaxInst == 2

\* values a matrix entry takes
Entries == {0, 1}
\* values standing for the parameter vector of one GSM
ParamVals == {0, 1}

-----------------------------------------------------------------------------
(* Dense matrices (Eigen::MatrixXd).                                       *)

\* the r x c matrices the model draws from: entry (i, j) is a*i + j + k
\* reduced to Entries, so that the entries of a matrix differ by position
Matrix(r, c) ==
    {[rows |-> r, cols |-> c,
      e |-> [ij \in (1..r) \X (1..c) |->
                (a * ij[1] + ij[2] + k) % Cardinality(Entries)]] :
        a \in Entries, k \in Entries}

Matrices == UNION {Matrix(r, c) : r \in 1..MaxDim, c \in 1..MaxDim}

-----------------------------------------------------------------------------
(* struct Parameters.                                                      *)

\* Parameters(): the defaults the training loop reads
DefaultMaxIter == 10
DefaultAdaptive == TRUE

\* int numScales = 10 of the ISA constructor
DefaultNumScales == 10

ParametersSet == [maxIter : 0..MaxOuterIter, adaptive : BOOLEAN]

-----------------------------------------------------------------------------
(* class ISA.                                                              *)

\* the widths of the subspaces of h hidden units cut into blocks of sSize
RECURSIVE Widths(_, _)
Widths(h, sSize) ==
    IF h <= 0 THEN <<>>
    ELSE IF h < sSize THEN <<h>>
    ELSE <<sSize>> \o Widths(h - sSize, sSize)

NewSubspaces(h, sSize, numScales) ==
    [i \in 1..Len(Widths(h, sSize)) |->
        [dim |-> Widths(h, sSize)[i], numScales |-> numScales, params |-> 0]]

\* ISA::ISA(numVisibles, numHiddens = -1, sSize = 1, numScales = 10)
ISA_ctor(numVisibles, numHiddens, sSize, numScales, B) ==
    LET h == IF numHiddens < 0 THEN numVisibles ELSE numHiddens IN
    /\ B \in Matrix(numVisibles, h)
    /\ mNumVisibles = numVisibles
    /\ mNumHiddens = h
    /\ mBasis = B
    /\ mSubspaces = NewSubspaces(h, sSize, numScales)

numVisibles == mNumVisibles

numHiddens == mNumVisibles

complete == mNumVisibles = mNumHiddens

numSubspaces == Len(mSubspaces)

basis == mBasis

\* the members after setBasis(B): <<mNumVisibles, mNumHiddens, mBasis, mSubspaces>>
SetBasisPartial(B) ==
    <<mNumVisibles, mNumHiddens,
      [rows |-> B.rows, cols |-> B.cols,
       e |-> [ij \in (1..B.rows) \X (1..B.cols) |->
                 IF ij[1] = 1 /\ ij \in DOMAIN mBasis.e
                 THEN mBasis.e[ij] ELSE B.e[ij]]],
      mSubspaces>>

setBasisMembers(B) == <<mNumVisibles, mNumHiddens, B, mSubspaces>>

setBasis(B) ==
    /\ trainPc = "idle"
    /\ mNumVisibles' = setBasisMembers(B)[1]
    /\ mNumHiddens' = setBasisMembers(B)[2]
    /\ mBasis' = setBasisMembers(B)[3]
    /\ mSubspaces' = setBasisMembers(B)[4]
    /\ isaCall' = [op |-> "setBasis", B |-> B]
    /\ UNCHANGED <<trainPc, trainIter, trainParams, trainSteps>>
    /\ UNCHANGED <<distVars, gsmVars>>

-----------------------------------------------------------------------------
(* ISA::train(data, params): the outer alternating loop.  One action per   *)
(* step of the loop body, so that the order of the steps is observable.    *)

\* Parameters(): maxIter = 10, adaptive = true
DefaultParameters == [maxIter |-> DefaultMaxIter, adaptive |-> DefaultAdaptive]

\* one pass of trainSGD over the basis
SGDUpdate(B) ==
    [B EXCEPT !.e = [ij \in DOMAIN B.e |-> (B.e[ij] + 1) % Cardinality(Entries)]]

\* one GSM::train of a subspace inside trainPrior
PriorUpdate(g) == [g EXCEPT !.params = (@ + 1) % Cardinality(ParamVals)]

\* whether the loop body is entered (again) after `done` iterations
LoopContinues(done, params) == done < params.maxIter

\* the position after the step at position pc
AfterStepAlwaysPrior(pc, params) ==
    IF pc = "samplePosterior" THEN "trainSGD"
    ELSE IF pc = "trainSGD" THEN "trainPrior"
    ELSE "end"

AfterStep(pc, params) ==
    IF pc = "samplePosterior" THEN "trainSGD"
    ELSE IF pc = "trainSGD" /\ params.adaptive THEN "trainPrior"
    ELSE "end"

\* leave the step at trainPc; at the end of the body, test the loop condition
Advance ==
    LET nxt == AfterStep(trainPc, trainParams) IN
    /\ trainSteps' = (IF trainPc = "samplePosterior" THEN <<>> ELSE trainSteps)
                        \o <<trainPc>>
    /\ IF nxt # "end"
       THEN /\ trainPc' = nxt
            /\ trainIter' = trainIter
       ELSE /\ trainIter' = trainIter + 1
            /\ trainPc' = IF LoopContinues(trainIter + 1, trainParams)
                          THEN "samplePosterior" ELSE "idle"
    /\ UNCHANGED <<mNumVisibles, mNumHiddens, trainParams, isaCall>>
    /\ UNCHANGED <<distVars, gsmVars>>

ISA_train(dataRows, params) ==
    /\ trainPc = "idle"
    /\ IF dataRows # mNumVisibles
       THEN /\ isaCall' = [op |-> "train", maxIter |-> params.maxIter, threw |-> TRUE]
            /\ UNCHANGED <<trainPc, trainIter, trainParams, trainSteps>>
       ELSE /\ isaCall' = [op |-> "train", maxIter |-> params.maxIter, threw |-> FALSE]
            /\ trainParams' = params
            /\ trainIter' = 0
            /\ trainSteps' = <<>>
            /\ trainPc' = IF LoopContinues(0, params) THEN "samplePosterior" ELSE "idle"
    /\ UNCHANGED <<mNumVisibles, mNumHiddens, mBasis, mSubspaces>>
    /\ UNCHANGED <<distVars, gsmVars>>

ISA_train_samplePosterior ==
    /\ trainPc = "samplePosterior"
    /\ Advance
    /\ UNCHANGED <<mBasis, mSubspaces>>

ISA_train_trainSGD ==
    /\ trainPc = "trainSGD"
    /\ mBasis' = SGDUpdate(mBasis)
    /\ Advance
    /\ UNCHANGED mSubspaces

ISA_train_trainPrior ==
    /\ trainPc = "trainPrior"
    /\ mSubspaces' = [i \in DOMAIN mSubspaces |-> PriorUpdate(mSubspaces[i])]
    /\ Advance
    /\ UNCHANGED mBasis

NoCall == [op |-> "none"]

-----------------------------------------------------------------------------
(* Distribution::evaluate.  A double is kept exactly, as the rational      *)
(* num/den times log(2)^ln2; NaN, the quotient 0/0, has den = 0.           *)

\* values one entry of logLikelihood(data) takes
LLVals == {-2, -1, 0, 1}

Abs(x) == IF x < 0 THEN -x ELSE x

RECURSIVE GCD(_, _)
GCD(a, b) == IF b = 0 THEN a ELSE GCD(b, a % b)

NaN == [num |-> 0, den |-> 0, ln2 |-> 0]

IsNaN(x) == x.den = 0

\* the double n/d
Quot(n, d) ==
    IF d = 0 THEN NaN
    ELSE LET g == GCD(Abs(n), Abs(d))
             sg == IF d < 0 THEN -1 ELSE 1
         IN [num |-> sg * (n \div g), den |-> sg * (d \div g), ln2 |-> 0]

Neg(x) == IF IsNaN(x) THEN NaN ELSE [x EXCEPT !.num = -@]

\* x / log(2.)
DivLog2(x) == IF IsNaN(x) THEN NaN ELSE [x EXCEPT !.ln2 = @ - 1]

\* x / k for an int k
DivInt(x, k) ==
    IF IsNaN(x) THEN NaN
    ELSE [Quot(x.num, x.den * k) EXCEPT !.ln2 = x.ln2]

RECURSIVE Sum(_)
Sum(a) == IF a = <<>> THEN 0 ELSE Head(a) + Sum(Tail(a))

\* Eigen's mean(): sum() / size()
Mean(a) == Quot(Sum(a), Len(a))

\* what an implementer's logLikelihood(data) may return: one value per column
LogLikelihoods(data) == [1..data.cols -> LLVals]

evaluateNoSign(ll, dim) == DivInt(DivLog2(Mean(ll)), dim)

\* -logLikelihood(data).mean() / log(2.) / dim()
evaluate(ll, dim) == DivInt(DivLog2(Neg(Mean(ll))), dim)

DataSet == [rows : 1..MaxDim, cols : 0..MaxCols]

Distribution_evaluate(data, ll) ==
    /\ distDim > 0
    /\ IF data.rows # distDim
       THEN evalCall' = [op |-> "evaluate", data |-> data, ll |-> <<>>,
                         threw |-> TRUE, result |-> NaN]
       ELSE /\ ll \in LogLikelihoods(data)
            /\ evalCall' = [op |-> "evaluate", data |-> data, ll |-> ll,
                            threw |-> FALSE, result |-> evaluate(ll, distDim)]
    /\ UNCHANGED <<distDim, distParams>>
    /\ UNCHANGED <<isaVars, gsmVars>>

InitDist ==
    /\ distDim \in 1..MaxDim
    /\ distParams \in ParamVals
    /\ evalCall = NoCall

NextDist ==
    \E data \in DataSet, ll \in UNION {LogLikelihoods(d) : d \in DataSet} :
        Distribution_evaluate(data, ll)

-----------------------------------------------------------------------------
(* The GSM core, as far as the binding observes it.  An instance is        *)
(* [dim, numScales, scales, priors]; scales and priors stand for the       *)
(* vectors of per-scale variances and mixture weights.                     *)

\* the message texts of the core's Exception
MsgShape == "Data has wrong dimensionality."
MsgDegenerate == "Mixture is degenerate."

\* log-likelihood gains of one EM iteration, and tolerances, in units of 1e-5
GainVals == {0, 2}
Gains == [1..MaxGsmIter -> GainVals]

NoInst == [dim |-> 0, numScales |-> 0, scales |-> 0, priors |-> 0]

\* GSM::GSM(dim, numScales)
NewGSM(dim, numScales) == [dim |-> dim, numScales |-> numScales, scales |-> 0, priors |-> 0]

\* E-step and M-step: every scale's variance and weight is refitted
EMStep(g) ==
    [g EXCEPT !.scales = (@ + 1) % Cardinality(ParamVals),
              !.priors = (@ + 1) % Cardinality(ParamVals)]

\* the gain of iteration i; past the run given, the likelihood has stopped improving
Gain(gains, i) == IF i \in DOMAIN gains THEN gains[i] ELSE 0

\* the first iteration whose gain is below tol
FirstBelow(gains, tol) ==
    CHOOSE i \in 1..(Len(gains) + 1) :
        /\ Gain(gains, i) < tol
        /\ \A j \in 1..(i - 1) : Gain(gains, j) >= tol

\* the loop of GSM::train(data, maxIter, tol), entered after i iterations
RECURSIVE EMLoop(_, _, _, _, _)
EMLoop(g, i, maxIter, tol, gains) ==
    IF i >= maxIter THEN [g |-> g, converged |-> FALSE, updates |-> i]
    ELSE IF Gain(gains, i + 1) < tol
         THEN [g |-> EMStep(g), converged |-> TRUE, updates |-> i + 1]
         ELSE EMLoop(EMStep(g), i + 1, maxIter, tol, gains)

\* GSM::normalize(): the variances rescaled to overall variance 1
Normalize(g) == [g EXCEPT !.scales = 0]

-----------------------------------------------------------------------------
(* The Python binding of GSM (gsminterface.cpp).                           *)

\* int num_scales = 10 of GSM_init
DefaultInitNumScales == 10
\* int max_iter = 100 of GSM_train
DefaultTrainMaxIter == 100
\* double tol = 1e-5 of GSM_train, in units of 1e-5
DefaultTol == 1

\* an optional int argument as the caller passes it: an int that fits, one
\* that does not fit a C int, a value that is no number, or nothing
Absent == [kind |-> "absent", val |-> 0]
IntArgs(S) ==
    [kind : {"int"}, val : S]
        \cup {Absent, [kind |-> "huge", val |-> 0], [kind |-> "str", val |-> 0]}

\* a Python value passed where an array is expected: an array of the shape
\* the model wants, an array of another shape, another object, or nothing
PyValues == {"array", "badshape", "other"}
PyArgs == PyValues \cup {"missing"}

\* the exception type the "i" converter of PyArg_ParseTupleAndKeywords raises
IntErr(x) ==
    IF x.kind = "huge" THEN "OverflowError"
    ELSE IF x.kind = "str" THEN "TypeError"
    ELSE ""

IntOr(x, default) == IF x.kind = "int" THEN x.val ELSE default

\* PyArg_ParseTupleAndKeywords(args, kwds, "O", ...)
Parse_O(data) ==
    IF data = "missing" THEN "TypeError" ELSE ""

\* PyArg_ParseTupleAndKeywords(args, kwds, "O|id", ...)
Parse_O_id(data, max_iter) ==
    IF data = "missing" THEN "TypeError" ELSE IntErr(max_iter)

\* PyArg_ParseTupleAndKeywords(args, kwds, "i|i", ...)
Parse_i_i(dim, num_scales) ==
    IF dim.kind = "absent" THEN "TypeError"
    ELSE IF IntErr(dim) # "" THEN IntErr(dim)
    ELSE IntErr(num_scales)

PyArray_CheckAlways(value) == TRUE

\* PyArray_Check(value)
PyArray_Check(value) == value \in {"array", "badshape"}

\* the record of one entry-point call
Call(op) ==
    [op |-> op, data |-> "", intKind |-> "", parsed |-> TRUE, isArray |-> TRUE,
     coreCalls |-> 0,
     coreThrew |-> "", ub |-> FALSE, errs |-> <<>>, ret |-> "",
     maxIter |-> 0, firstBelow |-> 0, updates |-> 0]

\* return <sentinel> after PyArg_ParseTupleAndKeywords failed and set its error
ParseFailed(c, errType, sentinel) ==
    [c EXCEPT !.parsed = FALSE,
              !.errs = Append(@, [type |-> errType, msg |-> "argument parsing"]),
              !.ret = sentinel]

\* PyErr_SetString(PyExc_TypeError, msg); return <sentinel>
NotArray(c, msg, sentinel) ==
    [c EXCEPT !.isArray = FALSE,
              !.errs = Append(@, [type |-> "TypeError", msg |-> msg]),
              !.ret = sentinel]

catchGenericMessage(c, message, sentinel) ==
    [c EXCEPT !.errs = Append(@, [type |-> "RuntimeError", msg |-> "GSM failed."]),
              !.ret = sentinel]

\* catch(Exception exception) { PyErr_SetString(PyExc_RuntimeError,
\*     exception.message()); return <sentinel>; }
catchException(c, message, sentinel) ==
    [c EXCEPT !.errs = Append(@, [type |-> "RuntimeError", msg |-> message]),
              !.ret = sentinel]

\* a member function called through the null self->gsm
Undefined(c) == [c EXCEPT !.ub = TRUE, !.ret = "garbage"]

TrainResultInverted(converged) == IF converged THEN "False" ELSE "True"

\* Py_True if self->gsm->train(...) else Py_False
TrainResult(converged) == IF converged THEN "True" ELSE "False"

\* the local max_iter of GSM_train once the arguments are parsed
ParsedMaxIter(max_iter) == IntOr(max_iter, DefaultTrainMaxIter)

TrainMaxIterAtLeastOne(m) == IF m < 1 THEN 1 ELSE m

\* the maxIter GSM_train hands to GSM::train
TrainMaxIter(m) == m

Alive == pyObj = "alive" /\ ~crashed

GSM_new(ok) ==
    /\ pyObj = "none"
    /\ IF ok
       THEN /\ pyObj' = "alive"
            /\ gsm' = 0
            /\ lastCall' = [Call("new") EXCEPT !.ret = "self"]
       ELSE /\ lastCall' = [Call("new") EXCEPT !.ret = "NULL"]
            /\ UNCHANGED <<pyObj, gsm>>
    /\ UNCHANGED <<heap, inst, crashed>>
    /\ UNCHANGED <<isaVars, distVars>>

GSM_init(dim, num_scales) ==
    /\ Alive
    /\ Len(heap) < MaxInst
    /\ IF Parse_i_i(dim, num_scales) # ""
       THEN /\ lastCall' = ParseFailed(Call("init"), Parse_i_i(dim, num_scales), "-1")
            /\ UNCHANGED <<gsm, heap, inst>>
       ELSE /\ heap' = Append(heap, 0)
            /\ gsm' = Len(heap) + 1
            /\ inst' = NewGSM(dim.val, IntOr(num_scales, DefaultInitNumScales))
            /\ lastCall' = [Call("init") EXCEPT !.ret = "0"]
    /\ UNCHANGED <<pyObj, crashed>>
    /\ UNCHANGED <<isaVars, distVars>>

GSM_dealloc ==
    /\ Alive
    /\ heap' = IF gsm = 0 THEN heap ELSE [heap EXCEPT ![gsm] = @ + 1]
    /\ pyObj' = "freed"
    /\ lastCall' = Call("dealloc")
    /\ UNCHANGED <<gsm, inst, crashed>>
    /\ UNCHANGED <<isaVars, distVars>>

GSM_set_scales(value, scales) ==
    /\ Alive
    /\ LET c == [Call("set_scales") EXCEPT !.data = value] IN
       IF ~PyArray_Check(value)
       THEN /\ lastCall' = NotArray(c, "Scales should be of type ndarray.", "-1")
            /\ UNCHANGED <<inst, crashed>>
       ELSE IF gsm = 0
       THEN /\ lastCall' = Undefined(c)
            /\ crashed' \in BOOLEAN
            /\ UNCHANGED inst
       ELSE IF value = "badshape"
       THEN /\ lastCall' = catchException(
                   [c EXCEPT !.coreCalls = 1, !.coreThrew = MsgShape], MsgShape, "-1")
            /\ UNCHANGED <<inst, crashed>>
       ELSE /\ inst' = [inst EXCEPT !.scales = scales]
            /\ lastCall' = [c EXCEPT !.coreCalls = 1, !.ret = "0"]
            /\ UNCHANGED crashed
    /\ UNCHANGED <<pyObj, gsm, heap>>
    /\ UNCHANGED <<isaVars, distVars>>

GSM_variance(degenerate) ==
    /\ Alive
    /\ LET c == Call("variance") IN
       IF gsm = 0
       THEN /\ lastCall' = Undefined(c)
            /\ crashed' \in BOOLEAN
       ELSE /\ lastCall' =
                IF degenerate
                THEN catchException(
                         [c EXCEPT !.coreCalls = 1, !.coreThrew = MsgDegenerate],
                         MsgDegenerate, "NULL")
                ELSE [c EXCEPT !.coreCalls = 1, !.ret = "float"]
            /\ UNCHANGED crashed
    /\ UNCHANGED <<pyObj, gsm, heap, inst>>
    /\ UNCHANGED <<isaVars, distVars>>

GSM_normalize(degenerate) ==
    /\ Alive
    /\ LET c == Call("normalize") IN
       IF gsm = 0
       THEN /\ lastCall' = Undefined(c)
            /\ crashed' \in BOOLEAN
            /\ UNCHANGED inst
       ELSE IF degenerate
       THEN /\ lastCall' = catchException(
                   [c EXCEPT !.coreCalls = 1, !.coreThrew = MsgDegenerate],
                   MsgDegenerate, "NULL")
            /\ UNCHANGED <<inst, crashed>>
       ELSE /\ inst' = Normalize(inst)
            /\ lastCall' = [c EXCEPT !.coreCalls = 1, !.ret = "None"]
            /\ UNCHANGED crashed
    /\ UNCHANGED <<pyObj, gsm, heap>>
    /\ UNCHANGED <<isaVars, distVars>>

GSM_train(data, max_iter, tol, gains) ==
    /\ Alive
    /\ LET c == [Call("train") EXCEPT !.data = data,
                                      !.intKind = max_iter.kind,
                                      !.maxIter = ParsedMaxIter(max_iter)]
           r == EMLoop(inst, 0, TrainMaxIter(ParsedMaxIter(max_iter)), tol, gains)
       IN
       IF Parse_O_id(data, max_iter) # ""
       THEN /\ lastCall' = ParseFailed(c, Parse_O_id(data, max_iter), "NULL")
            /\ UNCHANGED <<inst, crashed>>
       ELSE IF ~PyArray_Check(data)
       THEN /\ lastCall' = NotArray(c, "Data has to be stored in a NumPy array.", "NULL")
            /\ UNCHANGED <<inst, crashed>>
       ELSE IF gsm = 0
       THEN /\ lastCall' = Undefined(c)
            /\ crashed' \in BOOLEAN
            /\ UNCHANGED inst
       ELSE IF data = "badshape"
       THEN /\ lastCall' = catchException(
                   [c EXCEPT !.coreCalls = 1, !.coreThrew = MsgShape], MsgShape, "NULL")
            /\ UNCHANGED <<inst, crashed>>
       ELSE /\ inst' = r.g
            /\ lastCall' = [c EXCEPT !.coreCalls = 1,
                                     !.ret = TrainResult(r.converged),
                                     !.firstBelow = FirstBelow(gains, tol),
                                     !.updates = r.updates]
            /\ UNCHANGED crashed
    /\ UNCHANGED <<pyObj, gsm, heap>>
    /\ UNCHANGED <<isaVars, distVars>>

GSM_sample(num_samples, fails) ==
    /\ Alive
    /\ LET c == [Call("sample") EXCEPT !.intKind = num_samples.kind] IN
       IF IntErr(num_samples) # ""
       THEN /\ lastCall' = ParseFailed(c, IntErr(num_samples), "NULL")
            /\ UNCHANGED crashed
       ELSE IF gsm = 0
       THEN /\ lastCall' = Undefined(c)
            /\ crashed' \in BOOLEAN
       ELSE /\ lastCall' =
                IF fails
                THEN catchException(
                         [c EXCEPT !.coreCalls = 1, !.coreThrew = MsgDegenerate],
                         MsgDegenerate, "NULL")
                ELSE [c EXCEPT !.coreCalls = 1, !.ret = "ndarray"]
            /\ UNCHANGED crashed
    /\ UNCHANGED <<pyObj, gsm, heap, inst>>
    /\ UNCHANGED <<isaVars, distVars>>

\* the body GSM_posterior, GSM_sample_posterior, GSM_loglikelihood, GSM_energy
\* and GSM_energy_gradient share, each around its own member function of GSM
DataEntry(op, data) ==
    /\ Alive
    /\ LET c == [Call(op) EXCEPT !.data = data] IN
       IF Parse_O(data) # ""
       THEN /\ lastCall' = ParseFailed(c, Parse_O(data), "NULL")
            /\ UNCHANGED crashed
       ELSE IF ~PyArray_Check(data)
       THEN /\ lastCall' = NotArray(c, "Data has to be stored in a NumPy array.", "NULL")
            /\ UNCHANGED crashed
       ELSE IF gsm = 0
       THEN /\ lastCall' = Undefined(c)
            /\ crashed' \in BOOLEAN
       ELSE /\ lastCall' =
                IF data = "badshape"
                THEN catchException(
                         [c EXCEPT !.coreCalls = 1, !.coreThrew = MsgShape],
                         MsgShape, "NULL")
                ELSE [c EXCEPT !.coreCalls = 1, !.ret = "ndarray"]
            /\ UNCHANGED crashed
    /\ UNCHANGED <<pyObj, gsm, heap, inst>>
    /\ UNCHANGED <<isaVars, distVars>>

GSM_posterior(data) == DataEntry("posterior", data)

GSM_sample_posterior(data) == DataEntry("sample_posterior", data)

GSM_loglikelihood(data) == DataEntry("loglikelihood", data)

GSM_energy(data) == DataEntry("energy", data)

GSM_energy_gradient(data) == DataEntry("energy_gradient", data)

InitGSM ==
    /\ pyObj = "none"
    /\ gsm = 0
    /\ heap = <<>>
    /\ inst = NoInst
    /\ lastCall = NoCall
    /\ crashed = FALSE

NextGSM ==
    \/ \E ok \in BOOLEAN : GSM_new(ok)
    \/ \E dim \in IntArgs(1..MaxDim), n \in IntArgs({2}) : GSM_init(dim, n)
    \/ GSM_dealloc
    \/ \E v \in PyValues, sc \in ParamVals : GSM_set_scales(v, sc)
    \/ \E d \in BOOLEAN : GSM_variance(d)
    \/ \E d \in BOOLEAN : GSM_normalize(d)
    \/ \E data \in PyArgs, m \in IntArgs(0..MaxGsmIter), tol \in {DefaultTol, 3},
          gains \in Gains : GSM_train(data, m, tol, gains)
    \/ \E n \in IntArgs({1}), f \in BOOLEAN : GSM_sample(n, f)
    \/ \E data \in PyArgs : GSM_posterior(data)
    \/ \E data \in PyArgs : GSM_sample_posterior(data)
    \/ \E data \in PyArgs : GSM_loglikelihood(data)
    \/ \E data \in PyArgs : GSM_energy(data)
    \/ \E data \in PyArgs : GSM_energy_gradient(data)

-----------------------------------------------------------------------------
(* The program.                                                            *)

NoISA ==
    /\ mNumVisibles = 0
    /\ mNumHiddens = 0
    /\ mBasis = [rows |-> 0, cols |-> 0, e |-> <<>>]
    /\ mSubspaces = <<>>
    /\ trainPc = "none"
    /\ trainIter = 0
    /\ trainParams = DefaultParameters
    /\ trainSteps = <<>>
    /\ isaCall = NoCall

NoDist == distDim = 0 /\ distParams = 0 /\ evalCall = NoCall

NoGSM ==
    /\ pyObj = "absent"
    /\ gsm = 0
    /\ heap = <<>>
    /\ inst = NoInst
    /\ lastCall = NoCall
    /\ crashed = FALSE

InitISA ==
    /\ \E v \in 1..MaxDim, h \in {-1} \cup (1..MaxDim), sSize \in {1, 2}, B \in Matrices :
           ISA_ctor(v, h, sSize, DefaultNumScales, B)
    /\ trainPc = "idle"
    /\ trainIter = 0
    /\ trainParams = DefaultParameters
    /\ trainSteps = <<>>
    /\ isaCall = NoCall

NextISA ==
    \/ \E B \in Matrices : setBasis(B)
    \/ \E r \in 1..MaxDim, p \in ParametersSet \cup {DefaultParameters} : ISA_train(r, p)
    \/ ISA_train_samplePosterior
    \/ ISA_train_trainSGD
    \/ ISA_train_trainPrior

Init ==
    \/ InitISA /\ NoDist /\ NoGSM
    \/ NoISA /\ InitDist /\ NoGSM
    \/ NoISA /\ NoDist /\ InitGSM

Next == NextISA \/ NextDist \/ NextGSM

Spec == Init /\ [][Next]_vars

-----------------------------------------------------------------------------
(* Properties.                                                             *)

HasISA == trainPc # "none"

\* C1: numHiddens() returns the stored hidden count, numVisibles() the stored
\* visible count, and complete() is true exactly when the two accessors agree.
C1_AccessorsReturnStoredCounts ==
    HasISA =>
        /\ numVisibles = mNumVisibles
        /\ numHiddens = mNumHiddens
        /\ (complete <=> numVisibles = numHiddens)

\* C2: in every reachable state the stored basis has shape
\* numVisibles x numHiddens (a matrix of another shape is never installed).
C2_BasisShapeInvariant ==
    HasISA => mBasis.rows = mNumVisibles /\ mBasis.cols = mNumHiddens

\* C3: a setBasis(B) call leaves basis() equal to B in every entry and leaves
\* numVisibles(), complete(), numSubspaces() and the subspaces as they were.
C3_SetBasisReplacesOnlyBasis ==
    [][(trainPc = "idle" /\ trainPc' = "idle" /\ isaCall'.op = "setBasis") =>
          /\ basis' = isaCall'.B
          /\ \A ij \in DOMAIN isaCall'.B.e : basis'.e[ij] = isaCall'.B.e[ij]
          /\ numVisibles' = numVisibles
          /\ complete' = complete
          /\ numSubspaces' = numSubspaces
          /\ mSubspaces' = mSubspaces]_vars

C3_Witness ==
    /\ isaCall.op = "setBasis"
    /\ basis = isaCall.B
    /\ basis.rows # mNumVisibles
    /\ \E ij \in DOMAIN basis.e : basis.e[ij] = 1
    /\ \E ij \in DOMAIN basis.e : basis.e[ij] = 0

\* C4: for data with at least one sample, evaluate(data) is
\* -mean(logLikelihood(data)) / log(2) / dim(), the mean being taken over one
\* value per column, and evaluate changes no parameter of the model.
C4_EvaluateIsBitsPerDim ==
    /\ []((evalCall.op = "evaluate" /\ ~evalCall.threw /\ evalCall.data.cols >= 1) =>
            /\ Len(evalCall.ll) = evalCall.data.cols
            /\ evalCall.result.den > 0
            /\ evalCall.result.ln2 = -1
            /\ evalCall.result.num * (evalCall.data.cols * distDim)
                   = (0 - Sum(evalCall.ll)) * evalCall.result.den)
    /\ [][distParams' = distParams /\ distDim' = distDim]_vars

C4_Witness ==
    /\ evalCall.op = "evaluate"
    /\ ~evalCall.threw
    /\ evalCall.data.cols = 2
    /\ Sum(evalCall.ll) = -3
    /\ distDim = 2
    /\ evalCall.result = [num |-> 3, den |-> 4, ln2 |-> -1]

CoreEntryPoints ==
    {"set_scales", "variance", "normalize", "train", "posterior", "sample",
     "sample_posterior", "loglikelihood", "energy", "energy_gradient"}

Sentinel(op) == IF op = "set_scales" THEN "-1" ELSE "NULL"

\* C5: when the core call of an entry point fails with the internal error,
\* the entry point sets exactly one host error, whose message is the internal
\* error's message, and returns the failure sentinel.
C5_CoreFailureBecomesHostError ==
    (lastCall.op \in CoreEntryPoints /\ lastCall.coreThrew # "") =>
        /\ Len(lastCall.errs) = 1
        /\ lastCall.errs[1].msg = lastCall.coreThrew
        /\ lastCall.ret = Sentinel(lastCall.op)

C5_Witness ==
    /\ lastCall.op = "posterior"
    /\ lastCall.coreThrew = MsgShape
    /\ lastCall.errs = <<[type |-> "RuntimeError", msg |-> MsgShape]>>
    /\ lastCall.ret = "NULL"

TrainRan ==
    /\ lastCall.op = "train"
    /\ lastCall.data = "array"
    /\ lastCall.intKind \in {"absent", "int"}
    /\ ~lastCall.ub

\* C6: given valid array data, train returns True exactly when the gain fell
\* below tol within maxIter iterations, and otherwise returns False with no
\* host error set.
C6_TrainReportsConvergence ==
    TrainRan =>
        /\ lastCall.ret \in {"True", "False"}
        /\ (lastCall.ret = "True" <=> lastCall.firstBelow <= lastCall.maxIter)
        /\ lastCall.errs = <<>>

C6_Witness ==
    /\ TrainRan
    /\ lastCall.maxIter = 2
    /\ lastCall.firstBelow = 3
    /\ lastCall.ret = "False"
    /\ lastCall.errs = <<>>

\* C7: train with maxIter = 0 updates nothing (the GSM's variances and
\* weights, the ISA basis and subspaces are as before the call), raises no
\* error, and GSM_train returns False.
C7_ZeroIterationsUpdateNothing ==
    [][/\ (TrainRan' /\ lastCall'.maxIter = 0) =>
            /\ inst' = inst
            /\ lastCall'.updates = 0
            /\ lastCall'.ret = "False"
            /\ lastCall'.errs = <<>>
       /\ (/\ trainPc = "idle"
           /\ isaCall'.op = "train"
           /\ ~isaCall'.threw
           /\ isaCall'.maxIter = 0) =>
            /\ trainPc' = "idle"
            /\ mBasis' = mBasis
            /\ mSubspaces' = mSubspaces]_vars

C7_Witness ==
    /\ TrainRan
    /\ gsm # 0
    /\ lastCall.maxIter = 0
    /\ lastCall.ret = "False"
    /\ lastCall.updates = 0

TrainRunning == trainPc \in {"samplePosterior", "trainSGD", "trainPrior"}

Position == IF trainPc = "trainSGD" THEN 1 ELSE IF trainPc = "trainPrior" THEN 2 ELSE 0

\* the steps the running call still has to make, at most
Remaining == 3 * (trainParams.maxIter - trainIter) - Position

\* C8: ISA::train makes at most params.maxIter outer iterations and then
\* returns; each iteration is samplePosterior, then trainSGD, then trainPrior,
\* the last one exactly when params.adaptive is set; without adaptive no GSM
\* changes during train.
C8_OuterLoopOrderAndBound ==
    /\ [](HasISA =>
            /\ trainIter <= trainParams.maxIter
            /\ Remaining >= 0
            /\ TrainRunning =>
                  /\ trainIter < trainParams.maxIter
                  /\ ENABLED (\/ ISA_train_samplePosterior
                              \/ ISA_train_trainSGD
                              \/ ISA_train_trainPrior)
            /\ trainPc = "trainSGD" => trainSteps = <<"samplePosterior">>
            /\ trainPc = "trainPrior" =>
                  /\ trainParams.adaptive
                  /\ trainSteps = <<"samplePosterior", "trainSGD">>
            /\ (trainPc \in {"samplePosterior", "idle"} /\ trainIter > 0) =>
                  trainSteps = IF trainParams.adaptive
                               THEN <<"samplePosterior", "trainSGD", "trainPrior">>
                               ELSE <<"samplePosterior", "trainSGD">>
            /\ (trainPc = "idle" /\ isaCall.op = "train" /\ ~isaCall.threw) =>
                  trainIter = trainParams.maxIter)
    /\ [][/\ TrainRunning => Remaining' < Remaining
          /\ (isaCall'.op = "train" /\ ~trainParams'.adaptive) =>
                mSubspaces' = mSubspaces]_vars

C8_Witness ==
    /\ trainPc = "idle"
    /\ isaCall.op = "train"
    /\ ~isaCall.threw
    /\ ~trainParams.adaptive
    /\ trainParams.maxIter = 2
    /\ trainIter = 2
    /\ trainSteps = <<"samplePosterior", "trainSGD">>

\* C9: no GSM instance is deleted twice, and once the object is deallocated
\* every instance GSM_init allocated has been deleted exactly once.
C9_EveryInstanceFreedOnce ==
    /\ \A i \in DOMAIN heap : heap[i] <= 1
    /\ pyObj = "freed" => \A i \in DOMAIN heap : heap[i] = 1

RejectingEntryPoints ==
    {"set_scales", "train", "posterior", "sample_posterior", "loglikelihood",
     "energy", "energy_gradient"}

\* the call was given something that is no array, or arguments that do not parse
BadInput(c) ==
    /\ c.op \in RejectingEntryPoints
    /\ c.data \in {"other", "missing"} \/ c.intKind \in {"huge", "str"}

\* C10 as stated: on a value that is no array, or arguments that do not
\* parse, the entry point returns the failure sentinel with a type error and
\* has not invoked the core; the core is invoked at most once per call.
C10_RejectionIsTypeError ==
    /\ lastCall.op \in CoreEntryPoints => lastCall.coreCalls <= 1
    /\ BadInput(lastCall) =>
          /\ Len(lastCall.errs) = 1
          /\ lastCall.errs[1].type = "TypeError"
          /\ lastCall.ret = Sentinel(lastCall.op)
          /\ lastCall.coreCalls = 0

\* C10 as amended: on a value that is no array the entry point returns the
\* failure sentinel with a type error; on arguments that do not parse it
\* returns the sentinel with the error the parser set (a type error, or an
\* overflow error for a number out of range); either way the core is not
\* invoked and the GSM is as before; the core is invoked at most once per call.
C10_RejectionLeavesModelUntouched ==
    [][/\ lastCall'.op \in CoreEntryPoints => lastCall'.coreCalls <= 1
       /\ BadInput(lastCall') =>
            /\ Len(lastCall'.errs) = 1
            /\ lastCall'.errs[1].type =
                   IF lastCall'.data # "missing" /\ lastCall'.intKind = "huge"
                   THEN "OverflowError" ELSE "TypeError"
            /\ lastCall'.ret = Sentinel(lastCall'.op)
            /\ lastCall'.coreCalls = 0
            /\ inst' = inst
            /\ gsm' = gsm
            /\ heap' = heap]_vars

C10_Witness ==
    /\ lastCall.op = "train"
    /\ lastCall.data = "other"
    /\ gsm # 0
    /\ inst.scales # 0
    /\ lastCall.errs =
           <<[type |-> "TypeError", msg |-> "Data has to be stored in a NumPy array."]>>
    /\ lastCall.ret = "NULL"
    /\ lastCall.coreCalls = 0

====
